---- MODULE Spec2Model ----
(***************************************************************************)
(* A model of the reset_pause_abci application of open-autonomy:           *)
(* the threshold-collection rounds ResetRound and ResetAndPauseRound       *)
(* (packages/valory/skills/reset_pause_abci/rounds.py), the period state   *)
(* they read and rebuild, and the transition graph ResetPauseABCIApp.      *)
(* A second specification, HandlerSpec, follows ABCIHandler                *)
(* (packages/valory/skills/abstract_abci/handlers.py).                     *)
(*                                                                         *)
(* The base classes of abstract_round_abci (CollectSameUntilThresholdRound,*)
(* BasePeriodState, StateDB, AbciApp) are imported by rounds.py but are    *)
(* not part of the sources at hand; they are modelled from the written     *)
(* specification (sections 4.1 - 4.4) and marked as such below.            *)
(***************************************************************************)
EXTENDS Integers, Sequences, FiniteSets, TLC

VARIABLES
    round,          \* the class of the active round instance
    collection,     \* self.collection: the mapping sender -> payload
    period_state,   \* self.period_state: the live snapshot of the store
    last,           \* what the last call on the round instance did
    outbox,         \* context.outbox: the messages the handler has put, in order
    handled,        \* the message ABCIHandler.handle was last called with
    initial_data,   \* period_state.db.initial_data: the store's initial data
    collected,      \* RegistrationStartupBehaviour.collected (class attribute)
    behaviour,      \* the behaviour state instance of this agent
    act             \* what the last call of async_act did

vars == <<round, collection, period_state, last, outbox, handled,
          initial_data, collected, behaviour, act>>

(***************************************************************************)
(* Bounds of the model.                                                    *)
(***************************************************************************)
\* payloads carry period_count values 1 .. MaxPeriodCount
MaxPeriodCount == 3
\* the handler is followed until the outbox holds MaxOutbox messages
MaxOutbox == 2

(***************************************************************************)
(* Agents.  AllParticipants is the all_participants set of the period      *)
(* state; Outsider is an address that is not registered.  The set of       *)
(* participants of the current period is a subset of all_participants      *)
(* (spec section 3); the rounds use only its size, so one set per size.    *)
(***************************************************************************)
AllParticipants == {"A", "B", "C", "D"}
Outsider == "E"
Senders == AllParticipants \cup {Outsider}
ParticipantSets == {{"A", "B"}, {"A", "B", "C"}, {"A", "B", "C", "D"}}

None == "None"

(***************************************************************************)
(* Event and the round classes.                                            *)
(***************************************************************************)
Event == {"DONE", "ROUND_TIMEOUT", "NO_MAJORITY", "RESET_TIMEOUT"}

ResetRound == "ResetRound"
ResetAndPauseRound == "ResetAndPauseRound"
FinishedResetAndPauseRound == "FinishedResetAndPauseRound"
FinishedResetRound == "FinishedResetRound"

initial_states == {ResetRound, ResetAndPauseRound}

\* a slip: FinishedResetRound is left out of final_states, as it is left out of
\* the keys of transition_function
final_states_without_finished_reset == {FinishedResetAndPauseRound}

final_states == {FinishedResetAndPauseRound, FinishedResetRound}

\* the graph the documentation of the class ResetPauseABCIApp lists
documented_initial_states == {ResetRound, ResetAndPauseRound}

documented_final_states == {FinishedResetAndPauseRound}

documented_transition_function ==
    { <<ResetAndPauseRound, "DONE", FinishedResetAndPauseRound>>,
      <<ResetAndPauseRound, "RESET_TIMEOUT", ResetAndPauseRound>>,
      <<ResetAndPauseRound, "NO_MAJORITY", ResetAndPauseRound>>,
      <<ResetRound, "DONE", FinishedResetAndPauseRound>>,
      <<ResetRound, "RESET_TIMEOUT", ResetAndPauseRound>>,
      <<ResetRound, "NO_MAJORITY", ResetAndPauseRound>> }

\* a slip: the retry events lead to the final rounds
transition_function_retry_is_final ==
    { <<ResetAndPauseRound, "DONE", FinishedResetAndPauseRound>>,
      <<ResetAndPauseRound, "RESET_TIMEOUT", FinishedResetAndPauseRound>>,
      <<ResetAndPauseRound, "NO_MAJORITY", FinishedResetAndPauseRound>>,
      <<ResetRound, "DONE", FinishedResetRound>>,
      <<ResetRound, "RESET_TIMEOUT", FinishedResetRound>>,
      <<ResetRound, "NO_MAJORITY", FinishedResetRound>> }

\* a slip: the entry of NO_MAJORITY is missing for ResetRound
transition_function_without_no_majority ==
    { <<ResetAndPauseRound, "DONE", FinishedResetAndPauseRound>>,
      <<ResetAndPauseRound, "RESET_TIMEOUT", ResetAndPauseRound>>,
      <<ResetAndPauseRound, "NO_MAJORITY", ResetAndPauseRound>>,
      <<ResetRound, "DONE", FinishedResetRound>>,
      <<ResetRound, "RESET_TIMEOUT", ResetRound>> }

\* transition_function, as a set of <<round, event, next round>> edges
transition_function ==
    { <<ResetAndPauseRound, "DONE", FinishedResetAndPauseRound>>,
      <<ResetAndPauseRound, "RESET_TIMEOUT", ResetAndPauseRound>>,
      <<ResetAndPauseRound, "NO_MAJORITY", ResetAndPauseRound>>,
      <<ResetRound, "DONE", FinishedResetRound>>,
      <<ResetRound, "RESET_TIMEOUT", ResetRound>>,
      <<ResetRound, "NO_MAJORITY", ResetRound>> }

\* the keys of transition_function
transition_keys == {ResetAndPauseRound, ResetRound, FinishedResetAndPauseRound}

\* event_to_timeout: the events a timeout is configured for, with its seconds
event_to_timeout == ("ROUND_TIMEOUT" :> 30) @@ ("RESET_TIMEOUT" :> 30)

\* transition_function[r][e], or None when r is not a key or has no entry for e
next_round(r, e) ==
    IF \E edge \in transition_function : edge[1] = r /\ edge[2] = e
    THEN (CHOOSE edge \in transition_function : edge[1] = r /\ edge[2] = e)[3]
    ELSE None

(***************************************************************************)
(* Payloads: ResetPayload(sender, period_count).                           *)
(***************************************************************************)
PeriodCounts == 1 .. MaxPeriodCount
Payloads == [sender : Senders, period_count : PeriodCounts]

\* a slip: payload_attribute names an attribute every ResetPayload shares
\* (its transaction_type)
payload_attribute_transaction_type(payload) == "reset"

\* payload_attribute = "period_count": the attribute payloads are grouped by
payload_attribute(payload) == payload.period_count

(***************************************************************************)
(* The collection is a Python dict from sender to payload: a function      *)
(* whose domain is the set of senders that have an entry.                  *)
(***************************************************************************)
empty_collection == [s \in {} |-> None]

\* sender in self.collection
in_collection(coll, sender) == sender \in DOMAIN coll

\* self.collection[sender] = payload
set_item(coll, sender, payload) ==
    [s \in DOMAIN coll \cup {sender} |-> IF s = sender THEN payload ELSE coll[s]]

(***************************************************************************)
(* Synchronized State Store (spec 4.1).  A snapshot holds the period       *)
(* counter, the key/value data of the period (a Python dict: a function    *)
(* whose domain is the set of keys that are set) and the list of           *)
(* cross-period-persisted keys.                                            *)
(***************************************************************************)
\* key in data
is_set(ps, key) == key \in DOMAIN ps.data

\* db.get_all()
get_all(ps) == ps.data

\* db.get_strict(key), for a key that is set
get_strict(ps, key) == ps.data[key]

\* period_state.participants, period_state.all_participants
participants(ps) == get_strict(ps, "participants")
all_participants(ps) == get_strict(ps, "all_participants")

\* period_state.nb_participants
nb_participants(ps) ==
    IF is_set(ps, "participants") THEN Cardinality(ps.data["participants"]) ELSE 0

\* period_state.update(period_count=..., **kwargs): a new snapshot that starts
\* the period period_count with the given keys; the receiver is not changed
update(ps, period_count, kwargs) ==
    [period_count |-> period_count,
     data |-> kwargs,
     cross_period_persisted_keys |-> ps.cross_period_persisted_keys]

(***************************************************************************)
(* CollectSameUntilThresholdRound (spec 4.2).  self is the round instance: *)
(* [round, collection, period_state].                                      *)
(***************************************************************************)
\* the Byzantine-fault-tolerant quorum: the least count above 2/3 of nb
consensus_threshold(nb) == (2 * nb) \div 3 + 1

\* the number of payloads of the collection whose attribute is value
votes(coll, value) ==
    Cardinality({s \in DOMAIN coll : payload_attribute(coll[s]) = value})

\* the attribute values present in the collection
values_of(coll) == {payload_attribute(coll[s]) : s \in DOMAIN coll}

\* the size of the largest group of equal payload values
largest_nb_votes(coll) ==
    IF DOMAIN coll = {} THEN 0
    ELSE CHOOSE n \in 1 .. Cardinality(DOMAIN coll) :
            /\ \E v \in values_of(coll) : votes(coll, v) = n
            /\ \A v \in values_of(coll) : votes(coll, v) <= n

\* threshold_reached: some value is held by a quorum of payloads
threshold_reached(self) ==
    \E v \in values_of(self.collection) :
        votes(self.collection, v) >= consensus_threshold(nb_participants(self.period_state))

\* most_voted_payload: the value shared by the largest payload group, defined
\* only when threshold_reached.  Which of several largest groups of the same
\* size it is depends on the order of the entries of the collection, which the
\* mapping does not keep: each of them is a value the property can have.
most_voted_payload(self) ==
    IF threshold_reached(self)
    THEN {v \in values_of(self.collection) :
            votes(self.collection, v) = largest_nb_votes(self.collection)}
    ELSE {0}

\* is_majority_possible(collection, nb_participants): can the largest group
\* still reach the quorum if every participant that has not responded joins it
is_majority_possible(coll, nb) ==
    largest_nb_votes(coll) + (nb - Cardinality(DOMAIN coll)) >= consensus_threshold(nb)

\* the outcome of a call: the error it raised with its message, or Ok
Ok == "ok"
NotParticipant == "not in list of participants"
AlreadySent == "has already sent value for round"
raised(error, message) == [error |-> error, message |-> message]
passed == [error |-> Ok, message |-> ""]

\* a call on the round instance yields its outcome and the collection the
\* instance holds after it
\* CollectSameUntilThresholdRound.check_payload, inherited by ResetRound
CollectionRound_check_payload(self, payload) ==
    IF payload.sender \notin all_participants(self.period_state)
    THEN [outcome |-> raised("TransactionNotValidError", NotParticipant),
          collection |-> self.collection]
    ELSE IF in_collection(self.collection, payload.sender)
    THEN [outcome |-> raised("TransactionNotValidError", AlreadySent),
          collection |-> self.collection]
    ELSE [outcome |-> passed, collection |-> self.collection]

\* CollectSameUntilThresholdRound.process_payload, inherited by ResetRound
CollectionRound_process_payload(self, payload) ==
    IF payload.sender \notin all_participants(self.period_state)
    THEN [outcome |-> raised("ABCIAppInternalError", NotParticipant),
          collection |-> self.collection]
    ELSE IF in_collection(self.collection, payload.sender)
    THEN [outcome |-> raised("ABCIAppInternalError", AlreadySent),
          collection |-> self.collection]
    ELSE [outcome |-> passed,
          collection |-> set_item(self.collection, payload.sender, payload)]

\* DegenerateRound (FinishedResetAndPauseRound, FinishedResetRound): a named
\* sink of the graph that accepts no payloads and has no end_block decision
Degenerate == "degenerate round accepts no payloads"

DegenerateRound_check_payload(self, payload) ==
    [outcome |-> raised("TransactionNotValidError", Degenerate),
     collection |-> self.collection]

DegenerateRound_process_payload(self, payload) ==
    [outcome |-> raised("ABCIAppInternalError", Degenerate),
     collection |-> self.collection]

(***************************************************************************)
(* ResetAndPauseRound.process_payload and check_payload.                   *)
(***************************************************************************)
\* a slip: process_payload without the test `sender in self.collection`
ResetAndPauseRound_process_payload_overwrites(self, payload) ==
    LET sender == payload.sender
    IN  IF sender \notin all_participants(self.period_state)
        THEN [outcome |-> raised("ABCIAppInternalError", NotParticipant),
              collection |-> self.collection]
        ELSE [outcome |-> passed,
              collection |-> set_item(self.collection, sender, payload)]

\* a slip: process_payload without the test of the sender against
\* all_participants
ResetAndPauseRound_process_payload_any_sender(self, payload) ==
    LET sender == payload.sender
    IN  IF in_collection(self.collection, sender)
        THEN [outcome |-> raised("ABCIAppInternalError", AlreadySent),
              collection |-> self.collection]
        ELSE [outcome |-> passed,
              collection |-> set_item(self.collection, sender, payload)]

\* a slip: check_payload without the test `payload.sender in self.collection`
ResetAndPauseRound_check_payload_no_duplicate_test(self, payload) ==
    IF payload.sender \notin all_participants(self.period_state)
    THEN [outcome |-> raised("TransactionNotValidError", NotParticipant),
          collection |-> self.collection]
    ELSE [outcome |-> passed, collection |-> self.collection]

\* a slip: check_payload records the payload it accepts, as process_payload does
ResetAndPauseRound_check_payload_records(self, payload) ==
    IF payload.sender \notin all_participants(self.period_state)
    THEN [outcome |-> raised("TransactionNotValidError", NotParticipant),
          collection |-> self.collection]
    ELSE IF in_collection(self.collection, payload.sender)
    THEN [outcome |-> raised("TransactionNotValidError", AlreadySent),
          collection |-> self.collection]
    ELSE [outcome |-> passed,
          collection |-> set_item(self.collection, payload.sender, payload)]

ResetAndPauseRound_process_payload(self, payload) ==
    LET sender == payload.sender
    IN  IF sender \notin all_participants(self.period_state)
        THEN [outcome |-> raised("ABCIAppInternalError", NotParticipant),
              collection |-> self.collection]
        ELSE IF in_collection(self.collection, sender)
        THEN [outcome |-> raised("ABCIAppInternalError", AlreadySent),
              collection |-> self.collection]
        ELSE [outcome |-> passed,
              collection |-> set_item(self.collection, sender, payload)]

ResetAndPauseRound_check_payload(self, payload) ==
    LET sender_in_participant_set ==
            payload.sender \in all_participants(self.period_state)
    IN  IF ~sender_in_participant_set
        THEN [outcome |-> raised("TransactionNotValidError", NotParticipant),
              collection |-> self.collection]
        ELSE IF in_collection(self.collection, payload.sender)
        THEN [outcome |-> raised("TransactionNotValidError", AlreadySent),
              collection |-> self.collection]
        ELSE [outcome |-> passed, collection |-> self.collection]

(***************************************************************************)
(* end_block.  The result is None, or (state, event), or an exception      *)
(* raised by the call: [event, state, error].  most_voted is the value     *)
(* self.most_voted_payload evaluates to.                                   *)
(***************************************************************************)
returns_none(self) == [event |-> None, state |-> self.period_state, error |-> Ok]
returns(state, event) == [event |-> event, state |-> state, error |-> Ok]
raises(self, error) == [event |-> "raise", state |-> self.period_state, error |-> error]

\* f(period_count=..., **kwargs) with "period_count" among the kwargs is a
\* TypeError (multiple values for a keyword argument)
keyword_clash(named, kwargs) == (named \cap DOMAIN kwargs) # {}

\* a slip: the NO_MAJORITY branch returns the state the DONE branch builds
ResetRound_end_block_resets_on_no_majority(self, most_voted) ==
    LET state_data == ("tx_hashes_history" :> None) @@ get_all(self.period_state)
    IN  IF threshold_reached(self)
        THEN IF keyword_clash({"period_count"}, state_data)
             THEN raises(self, "TypeError")
             ELSE returns(update(self.period_state, most_voted, state_data), "DONE")
        ELSE IF ~is_majority_possible(self.collection, nb_participants(self.period_state))
        THEN returns(update(self.period_state, self.period_state.period_count, state_data),
                     "NO_MAJORITY")
        ELSE returns_none(self)

ResetRound_end_block(self, most_voted) ==
    IF threshold_reached(self)
    THEN LET state_data == ("tx_hashes_history" :> None) @@ get_all(self.period_state)
         IN  IF keyword_clash({"period_count"}, state_data)
             THEN raises(self, "TypeError")
             ELSE returns(update(self.period_state, most_voted, state_data), "DONE")
    ELSE IF ~is_majority_possible(self.collection, nb_participants(self.period_state))
    THEN returns(self.period_state, "NO_MAJORITY")
    ELSE returns_none(self)

\* a slip: the new period is started with the persisted keys only; the two
\* participant sets are not handed over
ResetAndPauseRound_end_block_drops_participants(self, most_voted) ==
    IF threshold_reached(self)
    THEN LET keys == self.period_state.cross_period_persisted_keys
             extra_kwargs == [key \in keys |-> get_strict(self.period_state, key)]
         IN  IF \E key \in keys : ~is_set(self.period_state, key)
             THEN raises(self, "KeyNotFoundError")
             ELSE IF keyword_clash({"period_count"}, extra_kwargs)
             THEN raises(self, "TypeError")
             ELSE returns(update(self.period_state, most_voted, extra_kwargs), "DONE")
    ELSE IF ~is_majority_possible(self.collection, nb_participants(self.period_state))
    THEN returns(self.period_state, "NO_MAJORITY")
    ELSE returns_none(self)

\* a slip: the new period is started with all the data of the current one, as
\* ResetRound.end_block does, and not with the persisted keys only
ResetAndPauseRound_end_block_keeps_all_keys(self, most_voted) ==
    IF threshold_reached(self)
    THEN LET state_data == get_all(self.period_state)
         IN  IF keyword_clash({"period_count"}, state_data)
             THEN raises(self, "TypeError")
             ELSE returns(update(self.period_state, most_voted, state_data), "DONE")
    ELSE IF ~is_majority_possible(self.collection, nb_participants(self.period_state))
    THEN returns(self.period_state, "NO_MAJORITY")
    ELSE returns_none(self)

ResetAndPauseRound_end_block(self, most_voted) ==
    IF threshold_reached(self)
    THEN LET keys == self.period_state.cross_period_persisted_keys
             extra_kwargs == [key \in keys |-> get_strict(self.period_state, key)]
         IN  IF \E key \in keys : ~is_set(self.period_state, key)
             THEN raises(self, "KeyNotFoundError")
             ELSE IF keyword_clash({"period_count", "participants", "all_participants"},
                                   extra_kwargs)
             THEN raises(self, "TypeError")
             ELSE returns(update(self.period_state, most_voted,
                                 ("participants" :> participants(self.period_state))
                                 @@ ("all_participants" :> all_participants(self.period_state))
                                 @@ extra_kwargs),
                          "DONE")
    ELSE IF ~is_majority_possible(self.collection, nb_participants(self.period_state))
    THEN returns(self.period_state, "NO_MAJORITY")
    ELSE returns_none(self)

\* The period state the round instance holds once end_block has run.
\* db.get_all() hands out the dict of the current period, not a copy of it, and
\* ResetRound.end_block assigns to its tx_hashes_history entry before it calls
\* update: the assignment lands in the period state the round instance holds,
\* whether update then returns or raises.
ResetRound_end_block_period_state(self) ==
    IF threshold_reached(self)
    THEN [self.period_state EXCEPT !.data = ("tx_hashes_history" :> None) @@ @]
    ELSE self.period_state

\* ResetAndPauseRound.end_block collects the persisted keys in a dict of its
\* own (extra_kwargs) and assigns to nothing else
ResetAndPauseRound_end_block_period_state(self) == self.period_state

\* dispatch on the class of the round instance
check_payload(self, payload) ==
    IF self.round = ResetAndPauseRound
    THEN ResetAndPauseRound_check_payload(self, payload)
    ELSE IF self.round = ResetRound
    THEN CollectionRound_check_payload(self, payload)
    ELSE DegenerateRound_check_payload(self, payload)

process_payload(self, payload) ==
    IF self.round = ResetAndPauseRound
    THEN ResetAndPauseRound_process_payload(self, payload)
    ELSE IF self.round = ResetRound
    THEN CollectionRound_process_payload(self, payload)
    ELSE DegenerateRound_process_payload(self, payload)

end_block(self, most_voted) ==
    IF self.round = ResetAndPauseRound
    THEN ResetAndPauseRound_end_block(self, most_voted)
    ELSE IF self.round = ResetRound
    THEN ResetRound_end_block(self, most_voted)
    ELSE returns_none(self)

end_block_period_state(self) ==
    IF self.round = ResetAndPauseRound
    THEN ResetAndPauseRound_end_block_period_state(self)
    ELSE IF self.round = ResetRound
    THEN ResetRound_end_block_period_state(self)
    ELSE self.period_state

\* the results end_block can return for the round instance
end_block_results(self) == {end_block(self, v) : v \in most_voted_payload(self)}

(***************************************************************************)
(* The state machine.  The round instance the bridge holds:                *)
(***************************************************************************)
Self == [round |-> round, collection |-> collection, period_state |-> period_state]

\* the error of an event the active round has no transition for
UnmappedEvent == "no transition for the event"

\* what `last` records of a call: the operation, the error it raised (or Ok)
\* with its message, the payload of check_payload and process_payload, the
\* event end_block returned, and the collection and period state the round
\* instance held when end_block was called
no_payload == [sender |-> None, period_count |-> 0]

record_of(op, outcome, payload, event, coll, state) ==
    [op |-> op, error |-> outcome.error, message |-> outcome.message,
     event |-> event, collection |-> coll, state |-> state]

(***************************************************************************)
(* ABCIHandler (packages/valory/skills/abstract_abci/handlers.py): the     *)
(* handler of the ABCI messages of the consensus engine.  A performative   *)
(* is its prefix ("request_", "response_" or none) and the rest of its     *)
(* name; a message carries its performative, its sender, whether           *)
(* abci_dialogues.update recovers a dialogue for it, and, for check_tx and *)
(* deliver_tx, the transaction: a payload and the id of the round it is    *)
(* addressed to.                                                           *)
(***************************************************************************)
request(name) == [prefix |-> "request_", name |-> name]
response(name) == [prefix |-> "response_", name |-> name]

\* the request types ABCIHandler has a method for
handler_methods ==
    {"info", "flush", "init_chain", "query", "check_tx", "deliver_tx",
     "begin_block", "end_block", "commit"}

\* request types of the ABCI protocol ABCIHandler has no method for
other_requests == {"echo", "set_option"}

\* round_id of the round classes
round_id(r) ==
    IF r = ResetRound THEN "reset"
    ELSE IF r = ResetAndPauseRound THEN "reset_and_pause"
    ELSE IF r = FinishedResetAndPauseRound THEN "finished_reset_pause"
    ELSE "finished_reset"

no_tx == [payload |-> no_payload, round_id |-> None]

Transactions ==
    [payload : {p \in Payloads : p.sender \in {"A", Outsider} /\ p.period_count = 1},
     round_id : {round_id(ResetRound), round_id(ResetAndPauseRound)}]

Messages ==
    [performative : {request(n) : n \in {"check_tx", "deliver_tx"}},
     sender : {"tendermint"}, dialogue : BOOLEAN, tx : Transactions]
    \cup
    [performative : {request(n) : n \in (handler_methods \ {"check_tx", "deliver_tx"})
                                        \cup other_requests}
                    \cup {response("info"), response("exception")},
     sender : {"tendermint"}, dialogue : BOOLEAN, tx : {no_tx}]

no_message ==
    [performative |-> [prefix |-> "", name |-> None], sender |-> None,
     dialogue |-> FALSE, tx |-> no_tx]

\* send_exception: the message it puts in the outbox
send_exception(message, error_message) ==
    [performative |-> response("exception"), to |-> message.sender,
     error |-> error_message]

\* the methods of the request types: each builds its reply to the message
info(message) ==
    [performative |-> response("info"), to |-> message.sender, info_data |-> "",
     version |-> "", app_version |-> 0, last_block_height |-> 0,
     last_block_app_hash |-> ""]

flush(message) == [performative |-> response("flush"), to |-> message.sender]

init_chain(message) ==
    [performative |-> response("init_chain"), to |-> message.sender,
     validators |-> <<>>, app_hash |-> ""]

query(message) ==
    [performative |-> response("query"), to |-> message.sender, code |-> 0,
     log |-> "", info |-> "", index |-> 0, key |-> "", value |-> "",
     proof_ops |-> <<>>, height |-> 0, codespace |-> ""]

check_tx(message) ==
    [performative |-> response("check_tx"), to |-> message.sender, code |-> 0,
     data |-> "", log |-> "", info |-> "", gas_wanted |-> 0, gas_used |-> 0,
     events |-> <<>>, codespace |-> ""]

deliver_tx(message) ==
    [performative |-> response("deliver_tx"), to |-> message.sender, code |-> 0,
     data |-> "", log |-> "", info |-> "", gas_wanted |-> 0, gas_used |-> 0,
     events |-> <<>>, codespace |-> ""]

begin_block(message) ==
    [performative |-> response("begin_block"), to |-> message.sender, events |-> <<>>]

ABCIHandler_end_block(message) ==
    [performative |-> response("end_block"), to |-> message.sender,
     validator_updates |-> <<>>, events |-> <<>>]

\* a slip: commit asks the engine to retain blocks from height 1
commit_retain_height_1(message) ==
    [performative |-> response("commit"), to |-> message.sender, data |-> "",
     retain_height |-> 1]

commit(message) ==
    [performative |-> response("commit"), to |-> message.sender, data |-> "",
     retain_height |-> 0]

\* getattr(self, request_type)(message, abci_dialogue)
handler(request_type, message) ==
    CASE request_type = "info" -> info(message)
      [] request_type = "flush" -> flush(message)
      [] request_type = "init_chain" -> init_chain(message)
      [] request_type = "query" -> query(message)
      [] request_type = "check_tx" -> check_tx(message)
      [] request_type = "deliver_tx" -> deliver_tx(message)
      [] request_type = "begin_block" -> begin_block(message)
      [] request_type = "end_block" -> ABCIHandler_end_block(message)
      [] request_type = "commit" -> commit(message)

\* a slip: handle without the test `"response_" in performative`; a response
\* performative names no method and the message is ignored
handle_without_response_test(message) ==
    IF ~message.dialogue
    THEN <<send_exception(message, "Invalid dialogue.")>>
    ELSE IF message.performative.prefix = "request_"
            /\ message.performative.name \in handler_methods
    THEN <<handler(message.performative.name, message)>>
    ELSE <<>>

\* ABCIHandler.handle: the messages it puts in the outbox, in order
handle(message) ==
    IF ~message.dialogue
    THEN <<send_exception(message, "Invalid dialogue.")>>
    ELSE IF message.performative.prefix = "response_"
    THEN <<send_exception(message, "can only handle ABCI requests")>>
    ELSE LET request_type == message.performative.name
         IN  IF request_type \notin handler_methods
             THEN <<>>
             ELSE <<handler(request_type, message)>>

\* a dict without keys
empty_dict == [k \in {} |-> None]

\* Python values the behaviours handle: None, a dict, and a str that either
\* is the JSON text of a dict or is no JSON at all
py_none == [type |-> "NoneType", json |-> FALSE, items |-> empty_dict]
py_dict(items) == [type |-> "dict", json |-> FALSE, items |-> items]
not_json == [type |-> "str", json |-> FALSE, items |-> empty_dict]

\* no behaviour instance; no call of async_act yet
no_behaviour ==
    [state_id |-> None, position |-> None, local_tendermint_params |-> py_none,
     service_registry_address |-> None, payload |-> py_none, trace |-> <<>>]
no_act == [events |-> <<>>, outcome |-> None, failed |-> None, error |-> Ok,
           succeeded |-> {}, completed_before |-> {}, completed |-> {}]

\* the data every period state holds when the app is entered
base_data(parts) ==
    ("participants" :> parts) @@ ("all_participants" :> AllParticipants)
    @@ ("tx_hashes_history" :> "0xabc")

with_safe == ("safe_contract_address" :> "0x5afe")
with_period_count == ("period_count" :> 0)

snapshot(data, keys) ==
    [period_count |-> 0, data |-> data, cross_period_persisted_keys |-> keys]

\* the period states the app is entered with: the data with or without an
\* application key (safe_contract_address) and a stored period_count, and the
\* persisted-key list the app is configured with (empty; an application key,
\* written or not yet written; period_count; participants)
InitialStates ==
    UNION { { snapshot(base_data(parts), {}),
              snapshot(base_data(parts) @@ with_safe, {}),
              snapshot(base_data(parts) @@ with_safe, {"safe_contract_address"}),
              snapshot(base_data(parts), {"safe_contract_address"}),
              snapshot(base_data(parts) @@ with_period_count, {}),
              snapshot(base_data(parts) @@ with_period_count, {"period_count"}),
              snapshot(base_data(parts), {"participants"}) } :
            parts \in ParticipantSets }

Init ==
    /\ round \in initial_states
    /\ collection = empty_collection
    /\ period_state \in InitialStates
    /\ last = record_of("init", passed, no_payload, None, empty_collection, period_state)
    /\ outbox = <<>>
    /\ handled = no_message
    /\ initial_data = empty_dict
    /\ collected = {}
    /\ behaviour = no_behaviour
    /\ act = no_act

\* check_tx: the bridge asks the active round to check a payload
CheckTx(payload) ==
    /\ LET done == check_payload(Self, payload)
       IN  /\ collection' = done.collection
           /\ last' = record_of("check_payload", done.outcome, payload,
                                None, empty_collection, period_state)
    /\ UNCHANGED <<round, period_state, outbox, handled>>
    /\ UNCHANGED <<initial_data, collected, behaviour, act>>

\* deliver_tx: the bridge has the active round process a payload
DeliverTx(payload) ==
    /\ LET done == process_payload(Self, payload)
       IN  /\ collection' = done.collection
           /\ last' = record_of("process_payload", done.outcome, payload,
                                None, empty_collection, period_state)
    /\ UNCHANGED <<round, period_state, outbox, handled>>
    /\ UNCHANGED <<initial_data, collected, behaviour, act>>

\* end of a block: the bridge evaluates end_block of the active round and, on
\* a (state, event) result, enters transition_function[round][event] with the
\* new state and an empty collection
EndBlock ==
    \E result \in end_block_results(Self) :
        /\ UNCHANGED <<outbox, handled>>
        /\ UNCHANGED <<initial_data, collected, behaviour, act>>
        /\ IF result.event \in Event /\ next_round(round, result.event) # None
           THEN /\ round' = next_round(round, result.event)
                /\ period_state' = result.state
                /\ collection' = empty_collection
                /\ last' = record_of("end_block", passed, no_payload,
                                     result.event, collection, period_state)
           ELSE /\ period_state' = end_block_period_state(Self)
                /\ UNCHANGED <<round, collection>>
                /\ last' = record_of("end_block",
                                     IF result.event \in Event
                                     THEN raised(UnmappedEvent, "")
                                     ELSE raised(result.error, ""),
                                     no_payload, result.event, collection, period_state)

\* a timeout configured in event_to_timeout elapses: the bridge takes the event
\* as it takes an event of end_block and enters transition_function[round][event]
\* with the period state as it is and an empty collection; no transaction is
\* involved
Timeout(event) ==
    /\ UNCHANGED <<outbox, handled>>
    /\ UNCHANGED <<initial_data, collected, behaviour, act>>
    /\ IF next_round(round, event) # None
       THEN /\ round' = next_round(round, event)
            /\ collection' = empty_collection
            /\ last' = record_of("timeout", passed, no_payload, event,
                                 collection, period_state)
            /\ UNCHANGED period_state
       ELSE /\ last' = record_of("timeout", raised(UnmappedEvent, ""), no_payload,
                                 event, collection, period_state)
            /\ UNCHANGED <<round, collection, period_state>>

Next ==
    \/ \E payload \in Payloads : CheckTx(payload)
    \/ \E payload \in Payloads : DeliverTx(payload)
    \/ EndBlock
    \/ \E event \in DOMAIN event_to_timeout : Timeout(event)

Spec == Init /\ [][Next]_vars

(***************************************************************************)
(* ABCIHandler at work: the consensus engine sends it messages while a     *)
(* round of the app is active.                                             *)
(***************************************************************************)
HandlerInit ==
    /\ round \in initial_states
    /\ period_state = snapshot(base_data(AllParticipants), {})
    /\ collection \in {empty_collection,
                       set_item(empty_collection, "A", [sender |-> "A", period_count |-> 1]),
                       [s \in {"A", "B", "C"} |-> [sender |-> s, period_count |-> 1]]}
    /\ last = record_of("init", passed, no_payload, None, empty_collection, period_state)
    /\ outbox = <<>>
    /\ handled = no_message
    /\ initial_data = empty_dict
    /\ collected = {}
    /\ behaviour = no_behaviour
    /\ act = no_act

\* handle(message): the handler is called with a message of the engine
Handle(message) ==
    /\ Len(outbox) < MaxOutbox
    /\ handled' = message
    /\ outbox' = outbox \o handle(message)
    /\ UNCHANGED <<round, collection, period_state, last>>
    /\ UNCHANGED <<initial_data, collected, behaviour, act>>

HandlerNext == \E message \in Messages : Handle(message)

HandlerSpec == HandlerInit /\ [][HandlerNext]_vars

(***************************************************************************)
(* Properties.                                                             *)
(***************************************************************************)
\* the senders of the collection whose payload carries period_count v
holders(v) == {s \in DOMAIN collection : collection[s].period_count = v}

\* C1: threshold_reached is true if and only if some period_count value is
\* carried by the payloads of strictly more than 2n/3 distinct senders, n being
\* the size of the participant set.
C1_ThresholdIffTwoThirds ==
    threshold_reached(Self)
        <=> \E v \in PeriodCounts :
                3 * Cardinality(holders(v)) > 2 * nb_participants(period_state)

\* C1 witness: with 4 participants the third equal payload has just been
\* recorded, and the threshold is reached by exactly 3 of 4.
C1_Witness ==
    /\ last.op = "process_payload" /\ last.error = Ok
    /\ nb_participants(period_state) = 4
    /\ largest_nb_votes(collection) = 3
    /\ threshold_reached(Self)

\* C2: end_block applies its decision policy in this order: if
\* threshold_reached it returns (next_state, DONE) with next_state.period_count
\* the most voted payload; otherwise, if no majority is possible any more, it
\* returns (the current period state, NO_MAJORITY); otherwise it returns None.
C2_DecisionPolicy ==
    round \notin final_states =>
        \A v \in most_voted_payload(Self) :
            LET result == end_block(Self, v)
            IN  IF threshold_reached(Self)
                THEN /\ result.event = "DONE"
                     /\ result.state.period_count = v
                ELSE IF ~is_majority_possible(collection, nb_participants(period_state))
                THEN /\ result.event = "NO_MAJORITY"
                     /\ result.state = period_state
                ELSE result.event = None

\* C3: most_voted_payload does not depend on the order in which the payloads
\* were recorded: the collection determines one value.
C3_MostVotedOrderIndependent ==
    threshold_reached(Self) => Cardinality(most_voted_payload(Self)) = 1

\* C4: two replicas that hold the same period state and were delivered the
\* same payloads compute the same end_block result: the round instance
\* determines one result.
C4_ReplicasAgree ==
    round \notin final_states => Cardinality(end_block_results(Self)) = 1

\* every key of the collection is in all_participants and maps to a payload of
\* that sender
C5_KeysAreParticipants ==
    \A s \in DOMAIN collection :
        /\ s \in all_participants(period_state)
        /\ collection[s].sender = s

\* a check_payload or process_payload step keeps every entry as it is
C5_FirstPayloadKept ==
    last'.op \in {"check_payload", "process_payload"} =>
        \A s \in DOMAIN collection :
            s \in DOMAIN collection' /\ collection'[s] = collection[s]

\* C5: the collection holds at most one payload per sender (the entry of a
\* sender is a payload of that sender), every key of the collection is in
\* all_participants, and while the round instance is active the entry of a
\* sender is never removed or overwritten by check_payload or process_payload.
C5_OnePayloadPerSender == []C5_KeysAreParticipants /\ [][C5_FirstPayloadKept]_vars

\* C5 witness: ResetAndPauseRound holds three entries and has just refused a
\* further payload of a sender that has one.
C5_Witness ==
    /\ round = ResetAndPauseRound
    /\ last.op = "process_payload" /\ last.message = AlreadySent
    /\ Cardinality(DOMAIN collection) = 3

\* C6: a payload of a sender that already has an entry in the collection is
\* rejected, by check_payload with TransactionNotValidError and by
\* process_payload with ABCIAppInternalError, and the collection is unchanged.
C6_DoubleSubmissionRejected ==
    round \notin final_states =>
        \A payload \in Payloads :
            payload.sender \in DOMAIN collection =>
                /\ check_payload(Self, payload).outcome.error = "TransactionNotValidError"
                /\ check_payload(Self, payload).collection = collection
                /\ process_payload(Self, payload).outcome.error = "ABCIAppInternalError"
                /\ process_payload(Self, payload).collection = collection

\* C6 witness: check_payload has just rejected a second payload of a sender.
C6_Witness ==
    /\ round = ResetAndPauseRound
    /\ last.op = "check_payload"
    /\ last.error = "TransactionNotValidError" /\ last.message = AlreadySent
    /\ DOMAIN collection # {}

\* C7: a payload whose sender is not in all_participants is rejected by
\* check_payload and by process_payload in every state of the round, threshold
\* reached or not, and the collection is unchanged.
C7_NonParticipantRejected ==
    round \notin final_states =>
        \A payload \in Payloads :
            payload.sender \notin all_participants(period_state) =>
                /\ check_payload(Self, payload).outcome.error = "TransactionNotValidError"
                /\ check_payload(Self, payload).collection = collection
                /\ process_payload(Self, payload).outcome.error = "ABCIAppInternalError"
                /\ process_payload(Self, payload).collection = collection

\* C7 witness: process_payload has just rejected a sender that is not a
\* participant, in a round whose threshold is already reached.
C7_Witness ==
    /\ round = ResetAndPauseRound
    /\ last.op = "process_payload"
    /\ last.error = "ABCIAppInternalError" /\ last.message = NotParticipant
    /\ threshold_reached(Self)

\* the collection check_payload leaves is the one it found
C8_CheckLeavesCollection ==
    round \notin final_states =>
        \A payload \in Payloads : check_payload(Self, payload).collection = collection

\* a check_payload step leaves round, collection and period state as they were
C8_CheckStepChangesNothing ==
    last'.op = "check_payload" =>
        /\ round' = round
        /\ collection' = collection
        /\ period_state' = period_state

\* C8: check_payload changes nothing, whether it accepts or rejects: the
\* collection it leaves is the one it found, and a check_tx step leaves the
\* round, the collection and the period state as they were.
C8_CheckPayloadPure == []C8_CheckLeavesCollection /\ [][C8_CheckStepChangesNothing]_vars

\* C8 witness: check_payload has just accepted a payload, and the collection
\* still holds only the two entries recorded before.
C8_Witness ==
    /\ round = ResetAndPauseRound
    /\ last.op = "check_payload" /\ last.error = Ok
    /\ Cardinality(DOMAIN collection) = 2

\* the participants that have no entry in the collection
not_yet_responded == participants(period_state) \ DOMAIN collection

\* C9: is_majority_possible(collection, n) is false exactly when the size of
\* the largest group of equal payload values plus the number of participants
\* that have not yet responded is below the quorum.
C9_MajorityPossibleExact ==
    round \notin final_states =>
        ( ~is_majority_possible(collection, nb_participants(period_state))
            <=> largest_nb_votes(collection) + Cardinality(not_yet_responded)
                    < consensus_threshold(nb_participants(period_state)) )

\* C10: when end_block emits NO_MAJORITY the state it returns is the current
\* period state, and the period state after the step is the one before it.
C10_NoMajorityKeepsState ==
    /\ round \notin final_states =>
          \A v \in most_voted_payload(Self) :
              end_block(Self, v).event = "NO_MAJORITY"
                  => end_block(Self, v).state = period_state
    /\ (last.op = "end_block" /\ last.event = "NO_MAJORITY") => period_state = last.state

\* C10 witness: ResetRound has just emitted NO_MAJORITY for three payloads that
\* differ pairwise, and the period state is the one it was called with.
C10_Witness ==
    /\ round = ResetRound
    /\ last.op = "end_block" /\ last.event = "NO_MAJORITY"
    /\ Cardinality(DOMAIN last.collection) = 3
    /\ largest_nb_votes(last.collection) = 1
    /\ period_state = last.state

\* C11: end_block is idempotent: a second call on the same round instance, with
\* no process_payload in between, returns what the first call returned (None,
\* or the same event with an equal next state), and the calls change neither
\* the collection nor the current period state.
C11_EndBlockIdempotent ==
    round \notin final_states =>
        \A v \in most_voted_payload(Self) :
            LET first == end_block(Self, v)
                after == [Self EXCEPT !.period_state = end_block_period_state(Self)]
                second == end_block(after, v)
            IN  /\ second.event = first.event
                /\ second.error = first.error
                /\ (first.event \in Event => second.state = first.state)
                /\ after = Self

\* the period transition ResetAndPauseRound.end_block has just made with DONE:
\* last.state is the period state before it, period_state the one after it
reset_and_pause_done ==
    /\ round = FinishedResetAndPauseRound
    /\ last.op = "end_block" /\ last.event = "DONE"

C13_ResetAndPauseDoneNeverFails ==
    (round = ResetAndPauseRound /\ threshold_reached(Self)) =>
        \A v \in most_voted_payload(Self) :
            /\ end_block(Self, v).error = Ok
            /\ end_block(Self, v).event = "DONE"
            /\ end_block(Self, v).state.period_count = v

\* the step took an event (of end_block or of a timeout) and moved the graph
\* along an edge
event_taken == last'.op \in {"end_block", "timeout"} /\ last'.error = Ok /\ last'.event \in Event

\* a timeout elapsed in an active round and the graph moved along the edge of
\* transition_function for its event, with the period state as it was
C14_TimeoutStep ==
    (last'.op = "timeout" /\ round \in {ResetRound, ResetAndPauseRound}) =>
        /\ <<round, last'.event, round'>> \in transition_function
        /\ collection' = empty_collection
        /\ period_state' = period_state

\* C14: when a timeout configured in event_to_timeout (ROUND_TIMEOUT,
\* RESET_TIMEOUT) elapses in ResetRound or ResetAndPauseRound, the graph moves
\* along the edge configured for that event from the active round, without any
\* new transaction.
C14_TimeoutMovesAlongEdge == [][C14_TimeoutStep]_vars

\* C15: every non-final round type has an outgoing transition for every event
\* its end_block can emit (DONE, NO_MAJORITY), so the app never advances on an
\* unmapped event.
C15_EveryEmittedEventMapped ==
    /\ \A r \in transition_keys \ final_states :
          \A e \in {"DONE", "NO_MAJORITY"} : next_round(r, e) # None
    /\ round \notin final_states =>
          \A result \in end_block_results(Self) :
              result.event \in Event => next_round(round, result.event) # None
    /\ last.op = "end_block" => last.error # UnmappedEvent

\* C15 witness: ResetRound has just emitted NO_MAJORITY and the graph has
\* entered ResetRound again.
C15_Witness ==
    /\ last.op = "end_block" /\ last.event = "NO_MAJORITY" /\ last.error = Ok
    /\ round = ResetRound /\ collection = empty_collection

\* every round type the app is in or can enter is a key of transition_function
\* or a final state, and no edge leaves a final state
C16_KeysOrFinal ==
    /\ round \in transition_keys \cup final_states
    /\ initial_states \subseteq transition_keys \cup final_states
    /\ \A edge \in transition_function :
          /\ edge[1] \notin final_states
          /\ edge[3] \in transition_keys \cup final_states

\* once the active round is a final state, no step changes it
C16_FinalStep == round \in final_states => round' = round

C17_DocumentedStep ==
    event_taken => <<round, last'.event, round'>> \in documented_transition_function

\* C17: the graph ResetPauseABCIApp implements is the one its class
\* documentation lists: the same initial states, the same final states, the
\* same edges, and every step of the app follows a documented edge.
C17_GraphAsDocumented ==
    /\ [][C17_DocumentedStep]_vars
    /\ [](/\ initial_states = documented_initial_states
          /\ transition_function = documented_transition_function
          /\ final_states = documented_final_states)

\* the message the handler put last in the outbox
last_response == outbox[Len(outbox)]

\* C18: deliver_tx applies a payload only to the active round: a payload
\* addressed to a round that is not the active one gets a deliver_tx response
\* with a non-zero status code.
C18_StaleDeliverTxRejected ==
    ( /\ handled.performative = request("deliver_tx")
      /\ handled.dialogue
      /\ handled.tx.round_id # round_id(round) ) =>
        /\ Len(outbox) > 0
        /\ last_response.performative = response("deliver_tx")
        /\ last_response.code # 0

\* C19: the check_tx response carries status code 0 exactly when check_payload
\* of the active round accepts the payload, and a non-zero code whenever
\* check_payload fails.
C19_CheckTxCodeFollowsCheckPayload ==
    (handled.performative = request("check_tx") /\ handled.dialogue) =>
        /\ Len(outbox) > 0
        /\ last_response.performative = response("check_tx")
        /\ (last_response.code = 0
                <=> check_payload(Self, handled.tx.payload).outcome.error = Ok)

\* a request without a method has just been handled, and the handler has put
\* the response to it in the outbox
C20_UnknownRequestStep ==
    ( /\ handled'.dialogue
      /\ handled'.performative.prefix = "request_"
      /\ handled'.performative.name \notin handler_methods ) =>
        /\ Len(outbox') = Len(outbox) + 1
        /\ outbox'[Len(outbox')].performative = response("exception")

\* C20: a request whose performative the handler has no method for is answered
\* with a RESPONSE_EXCEPTION message put in the outbox; it is never dropped
\* without a response.
C20_UnknownRequestAnswered == [][C20_UnknownRequestStep]_vars

\* the handler has just been called with a message whose dialogue is not
\* recovered or whose performative is a response, and has put one
\* RESPONSE_EXCEPTION with an error string in the outbox and nothing else
C21_BadMessageStep ==
    (~handled'.dialogue \/ handled'.performative.prefix = "response_") =>
        /\ Len(outbox') = Len(outbox) + 1
        /\ SubSeq(outbox', 1, Len(outbox)) = outbox
        /\ outbox'[Len(outbox')].performative = response("exception")
        /\ outbox'[Len(outbox')].error \in {"Invalid dialogue.", "can only handle ABCI requests"}

\* C21: when handle receives a message whose dialogue cannot be recovered, or
\* whose performative is a response_* performative, it puts exactly one
\* RESPONSE_EXCEPTION message carrying an error string in the outbox, invokes no
\* request handler and puts no other message in the outbox.
C21_BadMessageGetsOneException == [][C21_BadMessageStep]_vars

\* C21 witness: a response_info message with a recovered dialogue has been
\* handled and the outbox holds the one exception for it.
C21_Witness ==
    /\ handled.dialogue /\ handled.performative = response("info")
    /\ Len(outbox) = 1
    /\ outbox[1].performative = response("exception")
    /\ outbox[1].error = "can only handle ABCI requests"

\* the handler has just been called with REQUEST_END_BLOCK, and the app has
\* done what end_block of the active round decided
C22_EndBlockStep ==
    (handled'.performative = request("end_block") /\ handled'.dialogue) =>
        \E result \in end_block_results(Self) :
            IF result.event \in Event
            THEN /\ round' = next_round(round, result.event)
                 /\ period_state' = result.state
                 /\ collection' = empty_collection
            ELSE /\ round' = round
                 /\ collection' = collection

\* C22: at the end of a block the bridge evaluates end_block of the active
\* round: on (state, event) the active round becomes
\* transition_function[active round][event], the period state becomes state and
\* the collection is empty; on None the round and its collection are unchanged.
C22_EndBlockAdvancesGraph == [][C22_EndBlockStep]_vars

\* a commit, info, flush or query request has just been handled: the app is as
\* it was and the outbox has one more message, the response of that request
C23_BookkeepingStep ==
    ( /\ handled'.dialogue
      /\ handled'.performative \in {request(n) : n \in {"commit", "info", "flush", "query"}} ) =>
        /\ round' = round /\ collection' = collection /\ period_state' = period_state
        /\ Len(outbox') = Len(outbox) + 1
        /\ SubSeq(outbox', 1, Len(outbox)) = outbox
        /\ LET reply == outbox'[Len(outbox')]
           IN  /\ reply.performative = response(handled'.performative.name)
               /\ handled'.performative.name = "commit" =>
                      reply.data = "" /\ reply.retain_height = 0
               /\ handled'.performative.name = "query" => reply.code = 0

\* C23: the commit, info, flush and query requests leave the active round, its
\* collection and the period state unchanged; each only produces its response
\* (commit: empty data and retain_height 0; query: code 0).
C23_BookkeepingOnlyResponds == [][C23_BookkeepingStep]_vars

\* C23 witness: a commit request has been handled while a round with a reached
\* threshold is active, and the outbox holds its response.
C23_Witness ==
    /\ handled.dialogue /\ handled.performative = request("commit")
    /\ Len(outbox) > 0 /\ last_response.performative = response("commit")
    /\ threshold_reached(Self)

\* C25: building the next period state never changes an existing snapshot:
\* when end_block returns (next_state, DONE), the period state the round held
\* before the call has every key at its previous value.
C25_OldSnapshotUntouched ==
    round \notin final_states =>
        \A v \in most_voted_payload(Self) :
            end_block(Self, v).event = "DONE"
                => end_block_period_state(Self) = period_state

\* C30: the period state produced when a period ends with DONE has a
\* period_count one more than the period_count at the start of that period,
\* whatever payload values the participants submitted.
C30_PeriodCountIncrementsByOne ==
    (last.op = "end_block" /\ last.event = "DONE" /\ last.error = Ok) =>
        period_state.period_count = last.state.period_count + 1

(***************************************************************************)
(* Registration behaviours (registration_abci/behaviours.py).  The agent   *)
(* is agent_address; the contract API, the Tendermint server and the peers *)
(* answer as they please.                                                  *)
(***************************************************************************)
agent_address == "A"
tendermint_url == "localhost:26657"
RegisteredSets == {{}, {"B"}, {"A", "B"}}

\* bool(value) of a Python value
truth(value) == value.type = "dict" /\ DOMAIN value.items # {}

\* json.dumps(items): the JSON text of a dict
json_dumps(items) == [type |-> "str", json |-> TRUE, items |-> items]

\* json.loads(text): the dict a JSON text holds; JSONDecodeError for other text
json_loads(text) ==
    IF text.json
    THEN [ok |-> TRUE, value |-> py_dict(text.items)]
    ELSE [ok |-> FALSE, value |-> py_none]

\* the bodies the Tendermint server answers with
ParamsBodies ==
    {not_json, json_dumps(empty_dict), json_dumps("proxy_app" :> "tcp://0.0.0.0:26658")}
StatusBodies ==
    {not_json, json_dumps(empty_dict), json_dumps("status" :> 200),
     json_dumps("status" :> 500)}

\* the answers of the contract API to verify_contract and get_service_info
VerifyResponses ==
    [performative : {"error", "get_state"}, verified : BOOLEAN]
ServiceInfoResponses ==
    [performative : {"error", "get_state"},
     verified : {empty_dict} \cup {("agent_instances" :> r) : r \in RegisteredSets}]

\* what the outside answers during one call of async_act
Environments ==
    [params : ParamsBodies, verify : VerifyResponses,
     service_info : ServiceInfoResponses, update : StatusBodies,
     start : StatusBodies]

\* the state a call of async_act works on, and what a method does to it
emit(e, step, op, arg) ==
    [e EXCEPT !.events = Append(@, [step |-> step, op |-> op, arg |-> arg])]
sleep(e, step) == emit(e, step, "sleep", {})
result(e, value) == [state |-> e, value |-> value, error |-> Ok]
exception(e, error) == [state |-> e, value |-> FALSE, error |-> error]

\* the property registered_addresses
registered_addresses(data) ==
    IF "registered_addresses" \in DOMAIN data
    THEN data["registered_addresses"]
    ELSE empty_dict

\* is_correct_contract
is_correct_contract(e, env) ==
    LET sent == emit(e, "get_addresses", "verify_contract", {})
    IN  IF env.verify.performative # "get_state"
        THEN result(sent, FALSE)
        ELSE result(sent, env.verify.verified)

\* get_service_info
get_service_info(e, env) ==
    LET sent == emit(e, "get_addresses", "get_service_info", {})
    IN  IF env.service_info.performative # "get_state"
        THEN result(sent, empty_dict)
        ELSE result(sent, env.service_info.verified)

\* get_addresses
get_addresses(e, env) ==
    IF e.service_registry_address = None
    THEN exception(e, "RuntimeError")
    ELSE
    LET is_deployed == is_correct_contract(e, env)
    IN  IF ~is_deployed.value
        THEN result(is_deployed.state, FALSE)
        ELSE
    LET service_info == get_service_info(is_deployed.state, env)
    IN  IF service_info.value = empty_dict
        THEN result(service_info.state, FALSE)
        ELSE
    LET registered == service_info.value["agent_instances"]
        tendermint_info == [a \in registered |->
                    IF a = agent_address THEN tendermint_url ELSE None]
    IN  IF registered = {} \/ agent_address \notin registered
        THEN result(service_info.state, FALSE)
        ELSE result([service_info.state EXCEPT !.initial_data =
                        ("registered_addresses" :> tendermint_info) @@ @], TRUE)

\* get_tendermint_configuration
get_tendermint_configuration(e, env) ==
    LET sent == emit(e, "get_tendermint_configuration", "GET /params", {})
        loaded == json_loads(env.params)
    IN  IF loaded.ok
        THEN result([sent EXCEPT !.local_tendermint_params = loaded.value], TRUE)
        ELSE result(sent, FALSE)

\* update_tendermint_configuration
update_tendermint_configuration(e, env) ==
    LET addresses == registered_addresses(e.initial_data)
        p2p_seeds == {addresses[a] : a \in DOMAIN addresses}
        params == py_dict(("p2p_seeds" :> p2p_seeds) @@ e.local_tendermint_params.items)
        sent == emit([e EXCEPT !.local_tendermint_params = params],
                     "update_tendermint_configuration", "POST /params", {})
        loaded == json_loads(env.update)
    IN  IF ~loaded.ok
        THEN result(sent, FALSE)
        ELSE IF "status" \notin DOMAIN loaded.value.items
             THEN exception(sent, "KeyError")
             ELSE result(sent, loaded.value.items["status"] = 200)

\* start_tendermint
start_tendermint(e, env) ==
    LET sent == emit(e, "start_tendermint", "GET /start", {})
        loaded == json_loads(env.start)
    IN  IF loaded.ok
        THEN IF "status" \in DOMAIN loaded.value.items
                /\ loaded.value.items["status"] = 200
             THEN result(sent, TRUE)
             ELSE result(sleep(sent, "start_tendermint"), FALSE)
        ELSE result(sleep(sent, "start_tendermint"), FALSE)

\* how a call of async_act ends: it returns after a step that was not
\* successful, it raises, or it goes on into super().async_act()
returned(e, failed) ==
    [state |-> e, outcome |-> "return", failed |-> failed, error |-> Ok]
raising(e, failed, error) ==
    [state |-> e, outcome |-> "raise", failed |-> failed, error |-> error]
proceeds(e) ==
    [state |-> e, outcome |-> "super", failed |-> None, error |-> Ok]

\* a step the call does not take, and a step that was taken and successful
skipped(e) == result(e, TRUE)
completed_step(step, done) ==
    IF done.error = Ok /\ done.value
    THEN [done EXCEPT !.state.completed = @ \cup {step}]
    ELSE done

\* a slip: the difference is taken the other way round
not_yet_collected_of_collected(data, coll) ==
    coll \ DOMAIN registered_addresses(data)

\* set(self.registered_addresses).difference(self.collected)
not_yet_collected(data, coll) ==
    DOMAIN registered_addresses(data) \ coll

\* RegistrationStartupBehaviour.async_act, up to super().async_act()
RegistrationStartupBehaviour_async_act(e, env, coll) ==
    LET configured ==
            IF ~truth(e.local_tendermint_params)
            THEN completed_step("get_tendermint_configuration",
                                get_tendermint_configuration(e, env))
            ELSE skipped(e)
    IN  IF ~configured.value
        THEN returned(sleep(configured.state, "async_act"),
                      "get_tendermint_configuration")
        ELSE
    LET addressed ==
            IF DOMAIN registered_addresses(configured.state.initial_data) = {}
            THEN completed_step("get_addresses",
                                get_addresses(configured.state, env))
            ELSE skipped(configured.state)
    IN  IF addressed.error # Ok
        THEN raising(addressed.state, "get_addresses", addressed.error)
        ELSE IF ~addressed.value
        THEN returned(sleep(addressed.state, "async_act"), "get_addresses")
        ELSE
    LET missing == not_yet_collected(addressed.state.initial_data, coll)
        requested ==
            IF missing = {}
            THEN addressed.state
            ELSE emit(addressed.state, "make_tendermint_request",
                      "tendermint request", missing)
    IN  IF missing # {}
        THEN returned(sleep(requested, "async_act"), "make_tendermint_request")
        ELSE
    LET updated == completed_step("update_tendermint_configuration",
                                  update_tendermint_configuration(requested, env))
    IN  IF updated.error # Ok
        THEN raising(updated.state, "update_tendermint_configuration", updated.error)
        ELSE IF ~updated.value
        THEN returned(sleep(updated.state, "async_act"),
                      "update_tendermint_configuration")
        ELSE
    LET started == completed_step("start_tendermint",
                                  start_tendermint(updated.state, env))
    IN  IF ~started.value
        THEN returned(sleep(started.state, "async_act"), "start_tendermint")
        ELSE proceeds(started.state)

\* a slip: set_done follows the submission at once
RegistrationBaseBehaviour_async_act_without_wait(position, round_exited) ==
    CASE position = "async_act" -> "RegistrationPayload"
      [] position = "RegistrationPayload" -> "send_a2a_transaction"
      [] position = "send_a2a_transaction" -> "set_done"
      [] OTHER -> position

\* RegistrationBaseBehaviour.async_act: the call it is at after the call it
\* was at; wait_until_round_end is left once the matching round was exited
RegistrationBaseBehaviour_async_act(position, round_exited) ==
    CASE position = "async_act" -> "RegistrationPayload"
      [] position = "RegistrationPayload" -> "send_a2a_transaction"
      [] position = "send_a2a_transaction" -> "wait_until_round_end"
      [] position = "wait_until_round_end" ->
            IF round_exited THEN "set_done" ELSE position
      [] OTHER -> position

\* RegistrationPayload(agent_address, initialisation=...)
RegistrationPayload(data) ==
    [sender |-> agent_address,
     initialisation |-> IF data # empty_dict THEN json_dumps(data) ELSE py_none]

\* matching_round of the two behaviour states
matching_round(state_id) ==
    IF state_id = "registration_startup"
    THEN "RegistrationStartupRound"
    ELSE "RegistrationRound"

(***************************************************************************)
(* The behaviour of this agent at work while the bridge runs the round it  *)
(* mirrors.                                                                *)
(***************************************************************************)
BehaviourInit ==
    /\ \E state_id \in {"registration_startup", "registration"} :
       \E address \in {None, "0x48b6"} :
          /\ behaviour = [state_id |-> state_id,
                          position |-> IF state_id = "registration_startup"
                                       THEN "startup" ELSE "async_act",
                          local_tendermint_params |-> py_none,
                          service_registry_address |-> address,
                          payload |-> py_none, trace |-> <<>>]
          /\ round = matching_round(state_id)
    /\ collection = empty_collection
    /\ period_state = snapshot(base_data(AllParticipants), {})
    /\ last = record_of("init", passed, no_payload, None, empty_collection, period_state)
    /\ outbox = <<>>
    /\ handled = no_message
    /\ initial_data = empty_dict
    /\ collected = {}
    /\ act = no_act

\* one call of RegistrationStartupBehaviour.async_act, up to its return, its
\* exception or its entry into super().async_act()
StartupAct(env) ==
    /\ behaviour.state_id = "registration_startup"
    /\ behaviour.position = "startup"
    /\ LET e == [local_tendermint_params |-> behaviour.local_tendermint_params,
                 service_registry_address |-> behaviour.service_registry_address,
                 initial_data |-> initial_data, events |-> <<>>, completed |-> {}]
           done == RegistrationStartupBehaviour_async_act(e, env, collected)
       IN  /\ behaviour' =
                [behaviour EXCEPT
                    !.local_tendermint_params = done.state.local_tendermint_params,
                    !.position = CASE done.outcome = "return" -> "startup"
                                   [] done.outcome = "raise" -> "raised"
                                   [] OTHER -> "async_act"]
           /\ initial_data' = done.state.initial_data
           /\ act' = [events |-> done.state.events, outcome |-> done.outcome,
                      failed |-> done.failed, error |-> done.error,
                      succeeded |-> done.state.completed,
                      completed_before |-> act.completed,
                      completed |-> act.completed \cup done.state.completed]
    /\ UNCHANGED <<round, collection, period_state, last, outbox, handled, collected>>

\* RegistrationBaseBehaviour.async_act moves on to its next call
BaseAct ==
    /\ LET next == RegistrationBaseBehaviour_async_act(
                        behaviour.position,
                        round # matching_round(behaviour.state_id))
       IN  /\ next # behaviour.position
           /\ behaviour' =
                [behaviour EXCEPT
                    !.position = next,
                    !.trace = Append(@, next),
                    !.payload = IF next = "RegistrationPayload"
                                THEN RegistrationPayload(initial_data)
                                ELSE @]
    /\ UNCHANGED <<round, collection, period_state, last, outbox, handled,
                   initial_data, collected, act>>

\* the bridge leaves the round the behaviour mirrors
RoundEnd ==
    /\ round = matching_round(behaviour.state_id)
    /\ round' = "FinishedRegistrationRound"
    /\ UNCHANGED <<collection, period_state, last, outbox, handled,
                   initial_data, collected, behaviour, act>>

\* the answer of a registered agent to a Tendermint request arrives
TendermintResponse(address) ==
    /\ behaviour.position = "startup"
    /\ address \in DOMAIN registered_addresses(initial_data)
    /\ address \notin collected
    /\ collected' = collected \cup {address}
    /\ UNCHANGED <<round, collection, period_state, last, outbox, handled,
                   initial_data, behaviour, act>>

\* a new RegistrationStartupBehaviour is created in the running process: its
\* instance attributes are the class defaults; collected is an attribute of
\* the class, and the store is the store of the skill
NewInstance ==
    /\ behaviour.state_id = "registration_startup"
    /\ behaviour.position = "startup"
    /\ act # no_act
    /\ behaviour' = [behaviour EXCEPT !.local_tendermint_params = py_none,
                                      !.payload = py_none,
                                      !.trace = <<>>]
    /\ act' = no_act
    /\ UNCHANGED <<round, collection, period_state, last, outbox, handled,
                   initial_data, collected>>

BehaviourNext ==
    \/ \E env \in Environments : StartupAct(env)
    \/ BaseAct
    \/ RoundEnd
    \/ \E address \in AllParticipants : TendermintResponse(address)
    \/ NewInstance

BehaviourSpec == BehaviourInit /\ [][BehaviourNext]_vars

\* the events of the last call of async_act that are requests, and its sleeps
requests_of(events) == {i \in 1..Len(events) : events[i].op # "sleep"}
sleeps_of(events) == {i \in 1..Len(events) : events[i].op = "sleep"}

\* C24: the bridge is the single writer of the active round and of the live
\* period state, the store's initial_data included: no step of a behaviour
\* changes any of them.
C24_BehaviourStep ==
    (behaviour' # behaviour \/ act' # act)
        => UNCHANGED <<round, period_state, initial_data>>

C24_BridgeIsSingleWriter == [][C24_BehaviourStep]_vars

\* C26: a startup step that completed successfully in an earlier call of
\* RegistrationStartupBehaviour.async_act (get_tendermint_configuration,
\* get_addresses, update_tendermint_configuration, start_tendermint) issues
\* no request in a later call.
C26_CompletedStepsNotReissued ==
    \A i \in requests_of(act.events) :
        act.events[i].step \notin act.completed_before

\* C27: a call of RegistrationStartupBehaviour.async_act that returns after a
\* step that was not successful has slept exactly once, and the sleep is the
\* last thing it did.
C27_OneSleepThenReturn ==
    act.outcome = "return" =>
        /\ Cardinality(sleeps_of(act.events)) = 1
        /\ sleeps_of(act.events) = {Len(act.events)}

\* C28: no answer of the outside makes RegistrationStartupBehaviour.async_act
\* raise: a call that does not go on into super().async_act() returns after a
\* sleep and the behaviour is entered again.
C28_FailuresBecomeSleepAndRetry ==
    act.outcome \in {"return", "raise"} =>
        /\ act.outcome = "return"
        /\ Len(act.events) > 0
        /\ act.events[Len(act.events)].op = "sleep"
        /\ behaviour.position = "startup"

\* the calls of RegistrationBaseBehaviour.async_act in their order
C29_Order ==
    <<"RegistrationPayload", "send_a2a_transaction", "wait_until_round_end",
      "set_done">>

\* C29: a registration behaviour builds its payload, submits the transaction,
\* waits until the round it mirrors has been exited and only then calls
\* set_done; set_done is called at most once and never while the matching
\* round is the active round.
C29_SetDoneAfterRoundExit ==
    /\ Len(behaviour.trace) <= Len(C29_Order)
    /\ behaviour.trace = SubSeq(C29_Order, 1, Len(behaviour.trace))
    /\ behaviour.position = "set_done"
            => round # matching_round(behaviour.state_id)

\* C29 witness: the startup behaviour has gone through all its steps and the
\* base steps, and has called set_done after the bridge left its round.
C29_Witness ==
    /\ behaviour.state_id = "registration_startup"
    /\ act.outcome = "super"
    /\ behaviour.trace = C29_Order
    /\ round = "FinishedRegistrationRound"

\* C31: in every reachable period state participants and all_participants are
\* set, participants is a subset of all_participants and nb_participants is
\* the size of participants; a DONE transition of ResetAndPauseRound leaves
\* both sets as they were.
C31_ParticipantSetsKept ==
    /\ is_set(period_state, "participants")
    /\ is_set(period_state, "all_participants")
    /\ participants(period_state) \subseteq all_participants(period_state)
    /\ nb_participants(period_state) = Cardinality(participants(period_state))
    /\ (last.op = "end_block" /\ last.event = "DONE" /\ last.error = Ok
        /\ round = FinishedResetAndPauseRound)
            => /\ participants(period_state) = participants(last.state)
               /\ all_participants(period_state) = all_participants(last.state)

\* C31 witness: ResetAndPauseRound has made its DONE transition from a period
\* state whose participants are fewer than all_participants.
C31_Witness ==
    /\ last.op = "end_block" /\ last.event = "DONE" /\ last.error = Ok
    /\ round = FinishedResetAndPauseRound
    /\ participants(last.state) = {"A", "B", "C"}
    /\ participants(period_state) = {"A", "B", "C"}
    /\ period_state.period_count # last.state.period_count

\* C32: NO_MAJORITY and RESET_TIMEOUT raised in ResetRound or in
\* ResetAndPauseRound are no errors: they lead to a round that is not final,
\* with an empty collection, in which a new payload of every participant is
\* accepted, those who sent one in the failed attempt included.
C32_RetryStep ==
    (/\ round \in {ResetRound, ResetAndPauseRound}
     /\ last'.op \in {"end_block", "timeout"}
     /\ last'.event \in {"NO_MAJORITY", "RESET_TIMEOUT"})
        => /\ last'.error = Ok
           /\ round' \in {ResetRound, ResetAndPauseRound}
           /\ collection' = empty_collection
           /\ \A payload \in Payloads :
                payload.sender \in participants(period_state')
                    => process_payload(Self', payload).outcome = passed

C32_LivenessFailureRetries == [][C32_RetryStep]_vars

\* C32 witness: NO_MAJORITY was returned for a collection that held payloads,
\* and the round is entered again with an empty collection.
C32_Witness ==
    /\ last.op = "end_block" /\ last.event = "NO_MAJORITY" /\ last.error = Ok
    /\ DOMAIN last.collection \cap participants(last.state) # {}
    /\ round = ResetRound
    /\ collection = empty_collection

\* C33: a newly created RegistrationStartupBehaviour starts with an empty
\* collected mapping, whatever an earlier instance has collected.
C33_NewInstanceStep ==
    (act # no_act /\ act' = no_act) => collected' = {}

C33_NewInstanceStartsEmpty == [][C33_NewInstanceStep]_vars

\* C38: RegistrationStartupBehaviour builds and submits its payload, and calls
\* set_done, only after an act call in which the local Tendermint parameters
\* are set, registered_addresses is not empty, every registered address (its
\* own included) is in collected, and update_tendermint_configuration and
\* start_tendermint returned true; after every other act call nothing has
\* been submitted.
C38_SubmitsOnlyWhenStarted ==
    behaviour.state_id = "registration_startup" =>
        /\ behaviour.trace # <<>> =>
            /\ act.outcome = "super"
            /\ truth(behaviour.local_tendermint_params)
            /\ DOMAIN registered_addresses(initial_data) # {}
            /\ agent_address \in DOMAIN registered_addresses(initial_data)
            /\ DOMAIN registered_addresses(initial_data) \subseteq collected
            /\ {"update_tendermint_configuration", "start_tendermint"}
                    \subseteq act.succeeded
            /\ sleeps_of(act.events) = {}
        /\ act.outcome # "super" =>
            /\ behaviour.trace = <<>>
            /\ behaviour.position \in {"startup", "raised"}

\* C38 witness: the payload was submitted after an act call that found the
\* parameters and the addresses in place and every address collected, and that
\* updated and started Tendermint.
C38_Witness ==
    /\ behaviour.state_id = "registration_startup"
    /\ act.outcome = "super"
    /\ "send_a2a_transaction" \in {behaviour.trace[i] : i \in 1..Len(behaviour.trace)}
    /\ collected = {"A", "B"}
    /\ act.succeeded = {"update_tendermint_configuration", "start_tendermint"}

\* the period_count values a quorum of the collection holds
quorum_values ==
    {v \in PeriodCounts :
        3 * Cardinality(holders(v)) > 2 * nb_participants(period_state)}

\* C34: in every reachable collection of a round instance at most one payload
\* value is held by a quorum, so most_voted_payload is one value whenever
\* threshold_reached is true.
C34_AtMostOneQuorumValue ==
    round \notin final_states =>
        /\ Cardinality(quorum_values) <= 1
        /\ threshold_reached(Self) => Cardinality(most_voted_payload(Self)) = 1

\* C35: threshold_reached implies is_majority_possible(collection,
\* nb_participants): the DONE test and the NO_MAJORITY test of end_block never
\* both apply.
C35_DoneExcludesNoMajority ==
    (round \notin final_states /\ threshold_reached(Self))
        => is_majority_possible(collection, nb_participants(period_state))

\* C36: the decision of a round instance is stable under further payloads:
\* when end_block returns an event for the collection, it returns the same
\* event, and for DONE the same most voted value, after process_payload has
\* accepted one more payload.
C36_FurtherPayloadStep ==
    (/\ round \notin final_states
     /\ last'.op = "process_payload" /\ last'.error = Ok)
        => \A before \in end_block_results(Self) :
              before.event \in {"DONE", "NO_MAJORITY"}
                => \A after \in end_block_results(Self') :
                      /\ after.event = before.event
                      /\ before.event = "DONE"
                            => after.state.period_count = before.state.period_count

C36_DecisionStable == [][C36_FurtherPayloadStep]_vars

\* C37: once every member of participants has a payload in the collection of
\* a ResetRound or ResetAndPauseRound instance, end_block returns DONE or
\* NO_MAJORITY and not None.
C37_FullyAnsweredDecides ==
    (/\ round \notin final_states
     /\ participants(period_state) \subseteq DOMAIN collection)
        => \A done \in end_block_results(Self) :
              done.event \in {"DONE", "NO_MAJORITY"}

\* C39: when the threshold is reached in ResetRound, end_block returns
\* (state, DONE) for every period state; in the returned state period_count is
\* most_voted_payload, tx_hashes_history is None and every other key has the
\* value it has in the current period state.
C39_ResetRoundDone ==
    (round = ResetRound /\ threshold_reached(Self))
        => \A v \in most_voted_payload(Self) :
              LET done == end_block(Self, v)
              IN  /\ done.event = "DONE"
                  /\ done.state.period_count = v
                  /\ done.state.data["tx_hashes_history"] = None
                  /\ \A key \in DOMAIN period_state.data \ {"tx_hashes_history"} :
                        /\ key \in DOMAIN done.state.data
                        /\ done.state.data[key] = period_state.data[key]

(***************************************************************************)
(* The app under fair scheduling: payloads keep being delivered, end_block *)
(* is evaluated at the end of every block, the block that completes a      *)
(* quorum included, and the reset timeout keeps elapsing.                  *)
(***************************************************************************)
\* an evaluation of end_block that returns an event the graph has an edge for
EndBlockDecides ==
    /\ EndBlock
    /\ last'.event \in Event
    /\ last'.error = Ok

LiveNext ==
    \/ \E payload \in Payloads : DeliverTx(payload)
    \/ EndBlock
    \/ Timeout("RESET_TIMEOUT")

LiveSpec ==
    /\ Init
    /\ [][LiveNext]_vars
    /\ WF_vars(\E payload \in Payloads : DeliverTx(payload))
    /\ WF_vars(EndBlock)
    /\ SF_vars(EndBlockDecides)
    /\ WF_vars(Timeout("RESET_TIMEOUT"))

\* the round instance that was just left by NO_MAJORITY or by the reset
\* timeout had not been delivered a quorum of equal payloads
ended_without_quorum ==
    /\ last.op \in {"end_block", "timeout"}
    /\ last.error = Ok
    /\ last.event \in {"NO_MAJORITY", "RESET_TIMEOUT"}
    /\ ~threshold_reached([round |-> round, collection |-> last.collection,
                           period_state |-> last.state])

\* C40: if every round instance is delivered the same period_count payload
\* by more than 2/3 of the participants before it is left, the app eventually
\* reaches a final state under fair delivery, end_block and timeouts.
C40_EventuallyFinal ==
    ([]~ended_without_quorum) => <>(round \in final_states)

====
